---- MODULE Spec2Model ----
(***************************************************************************)
(* Model of the PCM wave codec of srinathh/wave: the 44-byte header codec  *)
(* (reader.go: Header, Validate, GetSampleCount), the Reader (NewReader,   *)
(* ReadInt, ReadFloat) and the Writer (NewWriter, WriteInt, WriteFloat).   *)
(*                                                                         *)
(* Streams and sinks are sequences of bytes (0..255).  Integers of the     *)
(* model are kept below 2^31; the uint16 arithmetic of the code is kept    *)
(* modulo 2^16.  A float32 is represented by its IEEE-754 bit pattern,     *)
(* split like an int32 (the widening to float64 is exact).                 *)
(***************************************************************************)
EXTENDS Integers, Sequences, FiniteSets, TLC

VARIABLES
    stream,     \* the bytes of the io.Reader handed to NewReader
    pos,        \* how many bytes of stream have been consumed
    rd,         \* the Reader: [open, H]
    sink,       \* the bytes the io.Writer of NewWriter has received
    sinkCap,    \* how many bytes that io.Writer takes before its Write fails
    wr,         \* the Writer: [open, H, ctr, numSamples]
    wargs,      \* the arguments NewWriter was called with
    result,     \* the last call: [op, err, what, val, arg], arg the length of the frame given
    readLog,    \* frames returned by successful ReadInt/ReadFloat calls, in order
    writeLog    \* frames accepted by successful WriteInt/WriteFloat calls, in order

vars == <<stream, pos, rd, sink, sinkCap, wr, wargs, result, readLog, writeLog>>

---------------------------------------------------------------------------
\* Bounds of the model.

\* NewWriter is called with numSamples in 0..MaxFrames.
MaxFrames == 2

\* A stream handed to NewReader carries 0..MaxData bytes after its header.
MaxData == 6

\* At most MaxReads frames are read from one stream (a header with zero
\* channels yields empty frames without end).
MaxReads == 8

\* Channel counts NewWriter is called with: two that fit the header's
\* uint16 fields with room to spare, and one whose block align
\* (channels * bitsPerSample / 8) does not fit 16 bits at 16 and 32 bits.
WriterChannels == {1, 2, 32768}

\* Channel counts of the headers handed to NewReader.
HeaderChannels == {0, 1, 2, 32768, 32769}

\* Bit depths NewWriter is called with (12 is outside every supported set).
WriterBits == {8, 12, 16, 24, 32}

\* Sample rates NewWriter is called with.
SampleRates == {1000, 44100}

\* Bit depths of the headers handed to NewReader (12 is rejected by Validate).
HeaderBits == {8, 12, 16, 24, 32}

\* Values of the int64 samples handed to WriteInt: -128 and 127 fit every
\* bit depth, 300 fits 16 bits and more.
IntSamples == {-128, 127, 300}

\* The float64 samples handed to WriteFloat, in tenths: 1.0 and 0.1.
FloatSamples == {10, 1}

\* Lengths of the frames handed to WriteInt and WriteFloat.
FrameLens == 0..3

\* The bytes the data part of a long input stream is made of.
DataBytes == {0, 255}

\* The bytes the data part of a short input stream (at most one 24-bit
\* sample) is made of.
RichBytes == {0, 1, 127, 128, 255}
RichLens == 1..3

\* Largest integer the model computes with.
MaxInt == 2^30 + (2^30 - 1)

---------------------------------------------------------------------------
\* Integer conversions of encoding/binary and of Go's casts.

U16(n) == n % 65536

\* The n little-endian bytes of the two's-complement value v.
RECURSIVE LE(_, _)
LE(v, n) == IF n = 0 THEN <<>> ELSE <<v % 256>> \o LE(v \div 256, n - 1)

\* The unsigned value of little-endian bytes.
RECURSIVE Unsigned(_)
Unsigned(b) == IF b = <<>> THEN 0 ELSE Head(b) + 256 * Unsigned(Tail(b))

SignedByte(x) == IF x >= 128 THEN x - 256 ELSE x

\* Signed with the sign bit read as a value bit.
SignedAsUnsigned(b) == Unsigned(b)

\* The signed (two's-complement) value of little-endian bytes.
Signed(b) ==
    IF b = <<>> THEN 0
    ELSE Unsigned(SubSeq(b, 1, Len(b) - 1))
           + SignedByte(b[Len(b)]) * (256 ^ (Len(b) - 1))

\* float32(sample) as the int32 with the same bits.
Float32Bits(f) ==
    CASE f = 10 -> 1065353216      \* 1.0 is 0x3F800000
      [] f = 1  -> 1036831949      \* 0.1 rounds to 0x3DCCCCCD
      [] OTHER  -> 0

---------------------------------------------------------------------------
\* The header (reader.go:14-28).

RIFF == <<82, 73, 70, 70>>
WAVE == <<87, 65, 86, 69>>
FMT  == <<102, 109, 116, 32>>
DATA == <<100, 97, 116, 97>>
RIFX == <<82, 73, 70, 88>>

HeaderSize == 44

EncodeHeader(h) ==
    h.RiffID \o LE(h.DataSize, 4) \o h.RiffType \o h.FmtChunkID
      \o LE(h.FmtChunkSize, 4) \o LE(h.AudioFmt, 2) \o LE(h.Channels, 2)
      \o LE(h.SamplesPerSec, 4) \o LE(h.BytesPerSec, 4) \o LE(h.BlockAlign, 2)
      \o LE(h.BitsPerSample, 2) \o h.DataChunkID \o LE(h.DataChunkSize, 4)

DecodeHeader(b) ==
    [RiffID        |-> SubSeq(b, 1, 4),
     DataSize      |-> Unsigned(SubSeq(b, 5, 8)),
     RiffType      |-> SubSeq(b, 9, 12),
     FmtChunkID    |-> SubSeq(b, 13, 16),
     FmtChunkSize  |-> Unsigned(SubSeq(b, 17, 20)),
     AudioFmt      |-> Unsigned(SubSeq(b, 21, 22)),
     Channels      |-> Unsigned(SubSeq(b, 23, 24)),
     SamplesPerSec |-> Unsigned(SubSeq(b, 25, 28)),
     BytesPerSec   |-> Unsigned(SubSeq(b, 29, 32)),
     BlockAlign    |-> Unsigned(SubSeq(b, 33, 34)),
     BitsPerSample |-> Unsigned(SubSeq(b, 35, 36)),
     DataChunkID   |-> SubSeq(b, 37, 40),
     DataChunkSize |-> Unsigned(SubSeq(b, 41, 44))]

byte4Cmp(b, s) == \A j \in 1..4 : b[j] = s[j]

\* Validate testing the format code before the chunk sizes.
ValidateFormatFirst(h) ==
    IF ~byte4Cmp(h.RiffID, RIFF) THEN "RiffID"
    ELSE IF ~byte4Cmp(h.RiffType, WAVE) THEN "RiffType"
    ELSE IF ~byte4Cmp(h.FmtChunkID, FMT) THEN "FmtChunkID"
    ELSE IF ~byte4Cmp(h.DataChunkID, DATA) THEN "DataChunkID"
    ELSE IF h.AudioFmt # 1 THEN "AudioFmt"
    ELSE IF h.FmtChunkSize # 16 THEN "FmtChunkSize"
    ELSE IF h.DataSize # 36 + h.DataChunkSize THEN "DataSize"
    ELSE IF h.BitsPerSample \notin {8, 16, 24, 32} THEN "BitsPerSample"
    ELSE "ok"

\* Validate without its last check, letting any bit depth through.
ValidateAnyDepth(h) ==
    IF ~byte4Cmp(h.RiffID, RIFF) THEN "RiffID"
    ELSE IF ~byte4Cmp(h.RiffType, WAVE) THEN "RiffType"
    ELSE IF ~byte4Cmp(h.FmtChunkID, FMT) THEN "FmtChunkID"
    ELSE IF ~byte4Cmp(h.DataChunkID, DATA) THEN "DataChunkID"
    ELSE IF h.FmtChunkSize # 16 THEN "FmtChunkSize"
    ELSE IF h.DataSize # 36 + h.DataChunkSize THEN "DataSize"
    ELSE IF h.AudioFmt # 1 THEN "AudioFmt"
    ELSE "ok"

\* Validate: "ok", or the name of the field of the first check that fails.
Validate(h) ==
    IF ~byte4Cmp(h.RiffID, RIFF) THEN "RiffID"
    ELSE IF ~byte4Cmp(h.RiffType, WAVE) THEN "RiffType"
    ELSE IF ~byte4Cmp(h.FmtChunkID, FMT) THEN "FmtChunkID"
    ELSE IF ~byte4Cmp(h.DataChunkID, DATA) THEN "DataChunkID"
    ELSE IF h.FmtChunkSize # 16 THEN "FmtChunkSize"
    ELSE IF h.DataSize # 36 + h.DataChunkSize THEN "DataSize"
    ELSE IF h.AudioFmt # 1 THEN "AudioFmt"
    ELSE IF h.BitsPerSample # 8 /\ h.BitsPerSample # 16
              /\ h.BitsPerSample # 24 /\ h.BitsPerSample # 32 THEN "BitsPerSample"
    ELSE "ok"

\* The divisor of GetSampleCount: a uint16 product, converted to int afterwards.
SampleCountDivisor(h) == U16(h.Channels * (h.BitsPerSample \div 8))

\* GetSampleCount: an integer division, which panics on a zero divisor.
GetSampleCount(h) ==
    IF SampleCountDivisor(h) = 0
    THEN [panic |-> TRUE, val |-> 0]
    ELSE [panic |-> FALSE, val |-> h.DataChunkSize \div SampleCountDivisor(h)]

---------------------------------------------------------------------------
\* The Reader (reader.go:102-191).

NoHeader == DecodeHeader([i \in 1..HeaderSize |-> 0])
NoReader == [open |-> FALSE, H |-> NoHeader]
NoWriter == [open |-> FALSE, H |-> NoHeader, ctr |-> 0, numSamples |-> 0]
NoArgs   == [channels |-> 0, samplesPerSec |-> 0, bitsPerSample |-> 0, numSamples |-> 0]
NoResult == [op |-> "none", err |-> "nil", what |-> "", val |-> <<>>, arg |-> 0]

\* binary.Read of n bytes at offset p of s: io.ReadFull consumes what is
\* there and fails when it is less than n.
CanRead(s, p, n) == p + n <= Len(s)
Bytes(s, p, n) == SubSeq(s, p + 1, p + n)

\* Decode24 with the high byte read as unsigned.
Decode24Unsigned(b) == b[3] * 65536 + Unsigned(<<b[1], b[2]>>)

\* The 24-bit sample of ReadInt: a uint16 then an int8, combined as
\* int64(data2)<<16 + int64(data1).
Decode24(b) == SignedByte(b[3]) * 65536 + Unsigned(<<b[1], b[2]>>)

\* FailedFrame handing back the channels decoded so far.
FailedFramePartial(ret) == ret

\* What a ReadInt that fails on channel j hands back: nil.
FailedFrame(ret) == <<>>

\* LoopDone stopping one channel early.
LoopDoneEarly(j, h) == j + 1 >= h.Channels

\* The test that ends the loop of ReadInt over the channels.
LoopDone(j, h) == j >= h.Channels

\* The loop of ReadInt over the channels, from channel j with ret decoded so
\* far.  Yields [err, val, pos].
RECURSIVE ReadIntLoop(_, _, _, _, _)
ReadIntLoop(s, p, h, j, ret) ==
    IF LoopDone(j, h) THEN [err |-> "nil", val |-> ret, pos |-> p]
    ELSE CASE h.BitsPerSample = 8 ->
                IF CanRead(s, p, 1)
                THEN ReadIntLoop(s, p + 1, h, j + 1, Append(ret, Signed(Bytes(s, p, 1))))
                ELSE [err |-> "TruncatedStream", val |-> FailedFrame(ret), pos |-> Len(s)]
           [] h.BitsPerSample = 16 ->
                IF CanRead(s, p, 2)
                THEN ReadIntLoop(s, p + 2, h, j + 1, Append(ret, Signed(Bytes(s, p, 2))))
                ELSE [err |-> "TruncatedStream", val |-> FailedFrame(ret), pos |-> Len(s)]
           [] h.BitsPerSample = 32 ->
                IF CanRead(s, p, 4)
                THEN ReadIntLoop(s, p + 4, h, j + 1, Append(ret, Signed(Bytes(s, p, 4))))
                ELSE [err |-> "TruncatedStream", val |-> FailedFrame(ret), pos |-> Len(s)]
           [] h.BitsPerSample = 24 ->
                IF ~CanRead(s, p, 2)
                THEN [err |-> "TruncatedStream", val |-> FailedFrame(ret), pos |-> Len(s)]
                ELSE IF ~CanRead(s, p + 2, 1)
                THEN [err |-> "TruncatedStream", val |-> FailedFrame(ret), pos |-> Len(s)]
                ELSE ReadIntLoop(s, p + 3, h, j + 1, Append(ret, Decode24(Bytes(s, p, 3))))
           [] OTHER -> [err |-> "panic", val |-> <<>>, pos |-> p]

ReadIntResult(s, p, h) == ReadIntLoop(s, p, h, 0, <<>>)

\* ReadFloat reading the frame before it tests the bit depth.
ReadFloatReadsFirst(s, p, h) ==
    IF ~CanRead(s, p, 4 * h.Channels)
    THEN [err |-> "TruncatedStream", val |-> <<>>, pos |-> Len(s)]
    ELSE IF h.BitsPerSample # 32
    THEN [err |-> "UnsupportedEncoding", val |-> <<>>, pos |-> p + 4 * h.Channels]
    ELSE [err |-> "nil",
          val |-> [j \in 1..h.Channels |-> Signed(Bytes(s, p + 4 * (j - 1), 4))],
          pos |-> p + 4 * h.Channels]

\* The bit-depth test ReadFloat starts with.
FloatReadable(h) == h.BitsPerSample = 32

\* ReadFloat: one binary.Read of Channels float32 values.  Yields [err, val, pos].
ReadFloatResult(s, p, h) ==
    IF ~FloatReadable(h)
    THEN [err |-> "UnsupportedEncoding", val |-> <<>>, pos |-> p]
    ELSE IF ~CanRead(s, p, 4 * h.Channels)
    THEN [err |-> "TruncatedStream", val |-> <<>>, pos |-> Len(s)]
    ELSE [err |-> "nil",
          val |-> [j \in 1..h.Channels |-> Signed(Bytes(s, p + 4 * (j - 1), 4))],
          pos |-> p + 4 * h.Channels]

\* NewReader on the bytes s: binary.Read of the header, then Validate.
\* AfterHeader for a header that is inspected without being consumed.
AfterHeaderPeeked(p) == p

\* The offset of the stream once binary.Read has filled the Header.
AfterHeader(p) == p + HeaderSize

NewReader(s) ==
    /\ ~rd.open
    /\ stream' = s
    /\ IF ~CanRead(s, 0, HeaderSize)
       THEN /\ pos' = Len(s)
            /\ rd' = rd
            /\ result' = [op |-> "NewReader", err |-> "MalformedHeader", what |-> "", val |-> <<>>, arg |-> 0]
       ELSE LET h == DecodeHeader(Bytes(s, 0, HeaderSize)) IN
            /\ pos' = AfterHeader(0)
            /\ IF Validate(h) = "ok"
               THEN /\ rd' = [open |-> TRUE, H |-> h]
                    /\ result' = [op |-> "NewReader", err |-> "nil", what |-> "", val |-> <<>>, arg |-> 0]
               ELSE /\ rd' = rd
                    /\ result' = [op |-> "NewReader", err |-> "InvalidHeaderField",
                                  what |-> Validate(h), val |-> <<>>, arg |-> 0]
    /\ readLog' = <<>>
    /\ UNCHANGED <<sink, sinkCap, wr, wargs, writeLog>>

ReadInt ==
    /\ rd.open
    /\ LET r == ReadIntResult(stream, pos, rd.H) IN
         /\ pos' = r.pos
         /\ result' = [op |-> "ReadInt", err |-> r.err, what |-> "", val |-> r.val, arg |-> 0]
         /\ readLog' = IF r.err = "nil"
                        THEN Append(readLog, [kind |-> "int", frame |-> r.val])
                        ELSE readLog
    /\ UNCHANGED <<stream, rd, sink, sinkCap, wr, wargs, writeLog>>

ReadFloat ==
    /\ rd.open
    /\ LET r == ReadFloatResult(stream, pos, rd.H) IN
         /\ pos' = r.pos
         /\ result' = [op |-> "ReadFloat", err |-> r.err, what |-> "", val |-> r.val, arg |-> 0]
         /\ readLog' = IF r.err = "nil"
                        THEN Append(readLog, [kind |-> "float", frame |-> r.val])
                        ELSE readLog
    /\ UNCHANGED <<stream, rd, sink, sinkCap, wr, wargs, writeLog>>

\* A call of the accessor GetSampleCount on the Reader's header.
GetSampleCountCall ==
    /\ rd.open
    /\ LET g == GetSampleCount(rd.H) IN
         result' = [op |-> "GetSampleCount",
                    err |-> IF g.panic THEN "panic" ELSE "nil",
                    what |-> "",
                    val |-> IF g.panic THEN <<>> ELSE <<g.val>>,
                    arg |-> 0]
    /\ UNCHANGED <<stream, pos, rd, sink, sinkCap, wr, wargs, readLog, writeLog>>

---------------------------------------------------------------------------
\* The Writer (writer.go:9-116).

\* BlockAlignOf forgetting the channels.
BlockAlignMono(channels, bitsPerSample) == U16(bitsPerSample \div 8)

\* The BlockAlign field NewWriter derives.
BlockAlignOf(channels, bitsPerSample) == U16((channels * bitsPerSample) \div 8)

\* The header NewWriter builds from its arguments.
WriterHeader(channels, samplesPerSec, bitsPerSample, numSamples) ==
    LET subChunk2Size == (numSamples * channels * bitsPerSample) \div 8 IN
    [RiffID        |-> RIFF,
     DataSize      |-> 36 + subChunk2Size,
     RiffType      |-> WAVE,
     FmtChunkID    |-> FMT,
     FmtChunkSize  |-> 16,
     AudioFmt      |-> 1,
     Channels      |-> U16(channels),
     SamplesPerSec |-> samplesPerSec,
     BytesPerSec   |-> (samplesPerSec * channels * bitsPerSample) \div 8,
     BlockAlign    |-> BlockAlignOf(channels, bitsPerSample),
     BitsPerSample |-> U16(bitsPerSample),
     DataChunkID   |-> DATA,
     DataChunkSize |-> subChunk2Size]

\* ChannelsMatch letting a frame with extra samples through.
ChannelsAtLeast(samples, h) == Len(samples) >= h.Channels

\* The channel-count test of WriteInt and WriteFloat.
ChannelsMatch(samples, h) == Len(samples) = h.Channels

\* BudgetLeft off by one.
BudgetLeftOneMore(w) == ~(w.ctr > w.numSamples)

\* The budget test of WriteInt and WriteFloat.
BudgetLeft(w) == ~(w.ctr + 1 > w.numSamples)

\* IntWritable with a case for 24 bits as well.
IntWritableWith24(h) == h.BitsPerSample \in {8, 16, 24, 32}

\* The bit depths WriteInt has a case for.
IntWritable(h) == h.BitsPerSample \in {8, 16, 32}

\* The bit depth WriteFloat accepts.
FloatWritable(h) == h.BitsPerSample = 32

\* binary.Write of a slice: the elements in order, each little-endian.
RECURSIVE EncodeSamples(_, _)
EncodeSamples(vals, width) ==
    IF vals = <<>> THEN <<>>
    ELSE LE(Head(vals), width) \o EncodeSamples(Tail(vals), width)

\* EncodeIntFrame writing the channels last to first.
EncodeIntFrameReversed(samples, h) ==
    EncodeSamples([j \in 1..Len(samples) |-> samples[Len(samples) + 1 - j]],
                  h.BitsPerSample \div 8)

\* The bytes WriteInt serialises a frame to: each sample cast to the
\* declared width.
EncodeIntFrame(samples, h) == EncodeSamples(samples, h.BitsPerSample \div 8)

\* The bytes WriteFloat serialises a frame to.
EncodeFloatFrame(samples) ==
    EncodeSamples([j \in 1..Len(samples) |-> Float32Bits(samples[j])], 4)

\* The counter after a write that succeeded.
Advance(ctr) == ctr + 1

\* A sink that never fails.
Unlimited == MaxInt

\* One Write call on the sink, as binary.Write makes for a value: the sink
\* takes the bytes it has room for and reports an error when that is not
\* all of them.
SinkWrite(s, cap, bytes) ==
    LET room == cap - Len(s)
        n    == IF Len(bytes) <= room THEN Len(bytes) ELSE room
    IN  [ok |-> Len(bytes) <= room, sink |-> s \o SubSeq(bytes, 1, n)]

\* CtrAfterWrite counting the frame whether or not the sink took it.
CtrAfterWriteAlways(ctr, ok) == ctr + 1

\* The counter after the frame was handed to the sink: incremented only
\* when the write returned no error.
CtrAfterWrite(ctr, ok) == IF ok THEN Advance(ctr) ELSE ctr

NewWriter(channels, samplesPerSec, bitsPerSample, numSamples) ==
    /\ ~wr.open
    \* the products below stay within the integers of the model
    /\ samplesPerSec * channels <= MaxInt \div bitsPerSample
    /\ LET h == WriterHeader(channels, samplesPerSec, bitsPerSample, numSamples)
           w == SinkWrite(sink, sinkCap, EncodeHeader(h))
       IN
         /\ sink' = w.sink
         /\ IF w.ok
            THEN /\ wr' = [open |-> TRUE, H |-> h, ctr |-> 0, numSamples |-> numSamples]
                 /\ wargs' = [channels |-> channels, samplesPerSec |-> samplesPerSec,
                              bitsPerSample |-> bitsPerSample, numSamples |-> numSamples]
                 /\ result' = [op |-> "NewWriter", err |-> "nil", what |-> "", val |-> <<>>, arg |-> 0]
            ELSE /\ UNCHANGED <<wr, wargs>>
                 /\ result' = [op |-> "NewWriter", err |-> "WriteFailed", what |-> "", val |-> <<>>, arg |-> 0]
    /\ writeLog' = <<>>
    /\ UNCHANGED <<stream, pos, rd, sinkCap, readLog>>

WriteInt(samples) ==
    /\ wr.open
    /\ IF ~ChannelsMatch(samples, wr.H)
       THEN /\ result' = [op |-> "WriteInt", err |-> "ChannelCountMismatch",
                          what |-> "", val |-> <<>>, arg |-> Len(samples)]
            /\ UNCHANGED <<sink, wr, writeLog>>
       ELSE IF ~BudgetLeft(wr)
       THEN /\ result' = [op |-> "WriteInt", err |-> "FrameBudgetExceeded",
                          what |-> "", val |-> <<>>, arg |-> Len(samples)]
            /\ UNCHANGED <<sink, wr, writeLog>>
       ELSE IF ~IntWritable(wr.H)
       THEN /\ result' = [op |-> "WriteInt", err |-> "UnsupportedEncoding",
                          what |-> "", val |-> <<>>, arg |-> Len(samples)]
            /\ UNCHANGED <<sink, wr, writeLog>>
       ELSE LET w == SinkWrite(sink, sinkCap, EncodeIntFrame(samples, wr.H)) IN
            /\ sink' = w.sink
            /\ wr' = [wr EXCEPT !.ctr = CtrAfterWrite(wr.ctr, w.ok)]
            /\ writeLog' = IF w.ok THEN Append(writeLog, [kind |-> "int", frame |-> samples])
                           ELSE writeLog
            /\ result' = [op |-> "WriteInt", err |-> IF w.ok THEN "nil" ELSE "WriteFailed",
                          what |-> "", val |-> <<>>, arg |-> Len(samples)]
    /\ UNCHANGED <<stream, pos, rd, sinkCap, wargs, readLog>>

WriteFloat(samples) ==
    /\ wr.open
    /\ IF ~ChannelsMatch(samples, wr.H)
       THEN /\ result' = [op |-> "WriteFloat", err |-> "ChannelCountMismatch",
                          what |-> "", val |-> <<>>, arg |-> Len(samples)]
            /\ UNCHANGED <<sink, wr, writeLog>>
       ELSE IF ~BudgetLeft(wr)
       THEN /\ result' = [op |-> "WriteFloat", err |-> "FrameBudgetExceeded",
                          what |-> "", val |-> <<>>, arg |-> Len(samples)]
            /\ UNCHANGED <<sink, wr, writeLog>>
       ELSE IF ~FloatWritable(wr.H)
       THEN /\ result' = [op |-> "WriteFloat", err |-> "UnsupportedEncoding",
                          what |-> "", val |-> <<>>, arg |-> Len(samples)]
            /\ UNCHANGED <<sink, wr, writeLog>>
       ELSE LET w == SinkWrite(sink, sinkCap, EncodeFloatFrame(samples)) IN
            /\ sink' = w.sink
            /\ wr' = [wr EXCEPT !.ctr = CtrAfterWrite(wr.ctr, w.ok)]
            /\ writeLog' = IF w.ok THEN Append(writeLog, [kind |-> "float", frame |-> samples])
                           ELSE writeLog
            /\ result' = [op |-> "WriteFloat", err |-> IF w.ok THEN "nil" ELSE "WriteFailed",
                          what |-> "", val |-> <<>>, arg |-> Len(samples)]
    /\ UNCHANGED <<stream, pos, rd, sinkCap, wargs, readLog>>

---------------------------------------------------------------------------
\* Specification Spec: a Writer is opened and written to, then a Reader is
\* opened on the bytes the sink holds and read from.

Frames(S) == UNION {[1..n -> S] : n \in FrameLens}

Init ==
    /\ stream = <<>>
    /\ pos = 0
    /\ rd = NoReader
    /\ sink = <<>>
    /\ sinkCap = Unlimited
    /\ wr = NoWriter
    /\ wargs = NoArgs
    /\ result = NoResult
    /\ readLog = <<>>
    /\ writeLog = <<>>

OpenWriter ==
    \E c \in WriterChannels, sps \in SampleRates, b \in WriterBits, n \in 0..MaxFrames :
        NewWriter(c, sps, b, n)

DoReadInt == Len(readLog) < MaxReads /\ ReadInt

DoReadFloat == Len(readLog) < MaxReads /\ ReadFloat

DoWriteInt == ~rd.open /\ \E f \in Frames(IntSamples) : WriteInt(f)

DoWriteFloat == ~rd.open /\ \E f \in Frames(FloatSamples) : WriteFloat(f)

\* The Reader is opened on a copy of what the sink holds.
OpenReaderOnSink == wr.open /\ result.op # "NewReader" /\ NewReader(sink)

Next ==
    \/ OpenWriter
    \/ DoWriteInt
    \/ DoWriteFloat
    \/ OpenReaderOnSink
    \/ DoReadInt
    \/ DoReadFloat
    \/ GetSampleCountCall

Spec == Init /\ [][Next]_vars

---------------------------------------------------------------------------
\* Specification SpecF: a Writer is opened on a sink of limited capacity
\* and written to until and after the sink refuses bytes.

\* Capacities that end inside the header, at its end, inside a frame and
\* at the end of a frame.
SinkCaps == {0, 20, 44, 45, 47, 48, 52}

InitF ==
    /\ stream = <<>>
    /\ pos = 0
    /\ rd = NoReader
    /\ sink = <<>>
    /\ sinkCap \in SinkCaps
    /\ wr = NoWriter
    /\ wargs = NoArgs
    /\ result = NoResult
    /\ readLog = <<>>
    /\ writeLog = <<>>

NextF ==
    \/ OpenWriter
    \/ DoWriteInt
    \/ DoWriteFloat

SpecF == InitF /\ [][NextF]_vars

---------------------------------------------------------------------------
\* Specification SpecR: a Reader is opened on a given byte stream and read
\* from; once GetSampleCount() frames have been read with ReadInt, a Writer
\* is opened with the header's parameters and the frames are written back
\* in order (wave_test.go:78-119).

\* A header whose validated fields are chosen one by one.
InputHeader(riff, wave, fmt, data, fsize, dsize, afmt, c, sps, b, dcs, derived) ==
    [RiffID        |-> riff,
     DataSize      |-> dsize,
     RiffType      |-> wave,
     FmtChunkID    |-> fmt,
     FmtChunkSize  |-> fsize,
     AudioFmt      |-> afmt,
     Channels      |-> c,
     SamplesPerSec |-> sps,
     BytesPerSec   |-> IF derived THEN sps * c * (b \div 8) ELSE 0,
     BlockAlign    |-> IF derived THEN U16(c * (b \div 8)) ELSE 0,
     BitsPerSample |-> b,
     DataChunkID   |-> data,
     DataChunkSize |-> dcs]

\* A header that passes every check that does not depend on the bit depth.
PlainHeader(c, b, dcs, derived) ==
    InputHeader(RIFF, WAVE, FMT, DATA, 16, 36 + dcs, 1, c, 8000, b, dcs, derived)

SeqsUpTo(S, n) == UNION {[1..k -> S] : k \in 0..n}

\* The data parts of the input streams.
InputData == SeqsUpTo(DataBytes, MaxData) \cup UNION {[1..k -> RichBytes] : k \in RichLens}

\* Streams with a header that passes the literal checks, followed by data.
PlainStreams ==
    {EncodeHeader(PlainHeader(c, b, dcs, derived)) \o d :
        c \in {1, 2}, b \in HeaderBits \ {12}, derived \in {TRUE},
        d \in InputData, dcs \in 0..(MaxData + 1)}

\* What DataChunkSize a header may declare for a stream with n data bytes:
\* all of them, half of them, one more.
DeclaredSizes(n) == {n, n \div 2, n + 1}

\* Streams whose header has unusual channel counts or derived fields.
OddStreams ==
    {EncodeHeader(PlainHeader(c, b, dcs, derived)) \o d :
        c \in HeaderChannels, b \in HeaderBits, derived \in BOOLEAN,
        d \in SeqsUpTo(DataBytes, 1), dcs \in 0..2}

\* Streams whose header may fail any subset of the checks of Validate.
FieldStreams ==
    {EncodeHeader(InputHeader(riff, wave, fmt, data, fsize, 36 + dcs + dd, afmt,
                              2, 8000, b, dcs, TRUE)) :
        riff \in {RIFF, RIFX}, wave \in {WAVE, RIFF}, fmt \in {FMT, DATA},
        data \in {DATA, FMT}, fsize \in {16, 18}, dd \in {0, 1}, afmt \in {1, 3},
        b \in HeaderBits, dcs \in {0, 4}}

\* Streams that end inside the header.
ShortStreams ==
    {SubSeq(EncodeHeader(PlainHeader(2, 16, 0, TRUE)), 1, k) : k \in {0, 20, 43}}

InitR ==
    /\ stream \in {s \in PlainStreams :
                      DecodeHeader(s).DataChunkSize \in DeclaredSizes(Len(s) - HeaderSize)}
                  \cup OddStreams \cup FieldStreams \cup ShortStreams
    /\ pos = 0
    /\ rd = NoReader
    /\ sink = <<>>
    /\ sinkCap = Unlimited
    /\ wr = NoWriter
    /\ wargs = NoArgs
    /\ result = NoResult
    /\ readLog = <<>>
    /\ writeLog = <<>>

OpenReader == result.op = "none" /\ NewReader(stream)

\* Reads stop once the frames are being written back.
ReadNextInt == ~wr.open /\ DoReadInt

ReadNextFloat == ~wr.open /\ DoReadFloat

\* The frames have all been read, with ReadInt alone.
AllRead ==
    /\ rd.open
    /\ ~GetSampleCount(rd.H).panic
    /\ Len(readLog) = GetSampleCount(rd.H).val
    /\ \A i \in 1..Len(readLog) : readLog[i].kind = "int"

EchoOpen ==
    /\ AllRead
    /\ NewWriter(rd.H.Channels, rd.H.SamplesPerSec, rd.H.BitsPerSample,
                 GetSampleCount(rd.H).val)

EchoWrite ==
    /\ wr.open
    /\ wr.ctr < Len(readLog)
    /\ WriteInt(readLog[wr.ctr + 1].frame)

NextR ==
    \/ OpenReader
    \/ ReadNextInt
    \/ ReadNextFloat
    \/ GetSampleCountCall
    \/ EchoOpen
    \/ EchoWrite

SpecR == InitR /\ [][NextR]_vars

---------------------------------------------------------------------------
\* Properties of Spec.

InRange(v, bits) == bits >= 32 \/ (-(2 ^ (bits - 1)) <= v /\ v < 2 ^ (bits - 1))

OnlyInt(log) == \A i \in 1..Len(log) : log[i].kind = "int"

WrittenInRange ==
    \A i \in 1..Len(writeLog) : \A j \in 1..Len(writeLog[i].frame) :
        InRange(writeLog[i].frame[j], wargs.bitsPerSample)

\* Every field of the header NewWriter builds holds its value in its width.
FitsHeader ==
    /\ wargs.channels < 65536
    /\ wargs.channels * (wargs.bitsPerSample \div 8) < 65536

\* A WriteInt of a whole frame within the budget succeeds, and the Reader
\* opened on the sink hands back the header parameters and, ReadInt by
\* ReadInt, the frames written.
RoundTripHolds ==
    /\ (result.op = "WriteInt" /\ result.arg = wargs.channels
           /\ Len(writeLog) < wargs.numSamples) => result.err = "nil"
    /\ (result.op = "NewReader" /\ wr.open) => result.err = "nil"
    /\ (rd.open /\ OnlyInt(writeLog) /\ WrittenInRange /\ OnlyInt(readLog)) =>
          /\ rd.H.Channels = wargs.channels
          /\ rd.H.BitsPerSample = wargs.bitsPerSample
          /\ rd.H.SamplesPerSec = wargs.samplesPerSec
          /\ GetSampleCount(rd.H) = [panic |-> FALSE, val |-> wargs.numSamples]
          /\ Len(readLog) <= Len(writeLog)
          /\ \A i \in 1..Len(readLog) : readLog[i].frame = writeLog[i].frame
          /\ (result.op = "ReadInt" /\ result.err # "nil") => Len(readLog) = Len(writeLog)

\* C1 as stated: with channels > 0, bitsPerSample in {8,16,24,32} and
\* frameCount >= 0, frames in range written with WriteInt are read back
\* unchanged by ReadInt, with the same channels, bitsPerSample, samplesPerSec
\* and sample count.
C1_RoundTripAnyDepth ==
    (wr.open /\ wargs.channels > 0 /\ wargs.bitsPerSample \in {8, 16, 24, 32}
       /\ wargs.numSamples >= 0) => RoundTripHolds

\* C1 amended: the round trip holds when bitsPerSample is 8, 16 or 32 and
\* the header fields hold their values in their declared widths.
C1_RoundTrip ==
    (wr.open /\ wargs.channels > 0 /\ wargs.bitsPerSample \in {8, 16, 32}
       /\ wargs.numSamples >= 0 /\ FitsHeader) => RoundTripHolds

\* Two two-channel 16-bit frames, negative and positive samples, written
\* and read back.
C1_Witness ==
    /\ rd.open
    /\ wargs.bitsPerSample = 16 /\ wargs.channels = 2
    /\ Len(writeLog) = 2 /\ Len(readLog) = 2
    /\ OnlyInt(writeLog) /\ OnlyInt(readLog)
    /\ readLog[1].frame = <<-128, 300>>
    /\ readLog[2].frame = <<127, -128>>

IsWrite(op) == op \in {"WriteInt", "WriteFloat"}

\* C3 as stated: once frameCount writes have succeeded, every write call
\* fails with FrameBudgetExceeded.
C3_AnyWriteOverBudget ==
    [][(wr.open /\ Len(writeLog) = wargs.numSamples /\ IsWrite(result'.op))
         => result'.err = "FrameBudgetExceeded"]_vars

\* C3 amended: once frameCount writes have succeeded, every write call
\* with a frame of the declared number of channels fails with
\* FrameBudgetExceeded.
C3_OverBudget ==
    [][(wr.open /\ Len(writeLog) = wargs.numSamples /\ IsWrite(result'.op)
          /\ result'.arg = wargs.channels)
         => result'.err = "FrameBudgetExceeded"]_vars

\* A write refused for the budget after an integer and a float frame.
C3_Witness ==
    /\ result.err = "FrameBudgetExceeded"
    /\ wargs.numSamples = 2 /\ Len(writeLog) = 2
    /\ writeLog[1].kind = "int" /\ writeLog[2].kind = "float"

\* C4: a write call with a frame whose length differs from the declared
\* channels fails with ChannelCountMismatch, whatever the writer's state,
\* and leaves ctr and the sink as they were.
C4_ChannelMismatch ==
    [][(wr.open /\ IsWrite(result'.op) /\ result'.arg # wargs.channels)
         => (result'.err = "ChannelCountMismatch" /\ wr'.ctr = wr.ctr /\ sink' = sink)]_vars

\* A mismatched frame refused by a Writer whose budget is used up.
C4_Witness ==
    /\ result.err = "ChannelCountMismatch"
    /\ wargs.numSamples >= 1 /\ wr.ctr = wargs.numSamples
    /\ result.arg > wargs.channels

\* The error the three preconditions of a write call give when taken in
\* the order channel count, frame budget, bit depth; "none" when all hold.
FirstRefusal(len, depths) ==
    IF len # wr.H.Channels THEN "ChannelCountMismatch"
    ELSE IF wr.ctr >= wr.numSamples THEN "FrameBudgetExceeded"
    ELSE IF wr.H.BitsPerSample \notin depths THEN "UnsupportedEncoding"
    ELSE "none"

\* C11: WriteInt and WriteFloat report the first precondition that fails,
\* in the order channel count, frame budget, bit depth (one of 8, 16, 32
\* for WriteInt, 32 for WriteFloat); a call refused with
\* UnsupportedEncoding, as WriteInt is at 24 bits, writes no byte to the
\* sink and leaves ctr as it was.
C11_PreconditionOrder ==
    [][(wr.open /\ IsWrite(result'.op)) =>
         LET refusal == FirstRefusal(result'.arg,
                           IF result'.op = "WriteInt" THEN {8, 16, 32} ELSE {32})
         IN  /\ refusal # "none" => result'.err = refusal
             /\ refusal = "none" => result'.err \in {"nil", "WriteFailed"}
             /\ result'.err = "UnsupportedEncoding" => (sink' = sink /\ wr'.ctr = wr.ctr)]_vars

\* A WriteInt with a frame of the declared length refused at 24 bits,
\* after which the sink holds the header only.
C11_Witness ==
    /\ result.op = "WriteInt" /\ result.err = "UnsupportedEncoding"
    /\ wr.H.BitsPerSample = 24
    /\ result.arg = wr.H.Channels
    /\ wr.ctr = 0 /\ wr.numSamples > 0
    /\ Len(sink) = HeaderSize

\* Byte k, counted from 0, of the little-endian two's complement form of v.
ByteOf(v, k) == (v \div (256 ^ k)) % 256

\* The integer whose low bytes a logged frame puts on the sink for its
\* channel j.
Written(f, j) == IF f.kind = "float" THEN Float32Bits(f.frame[j]) ELSE f.frame[j]

\* C15: with a sink that accepts every write, an open Writer has
\* 0 <= ctr <= frameCount, and the sink holds the 44 header bytes once,
\* followed by ctr * channels * bitsPerSample/8 bytes: the frames that were
\* written successfully, in call order, channel 0 first, each sample
\* little-endian in bitsPerSample/8 bytes; rejected calls have added nothing.
C15_WriterInvariant ==
    wr.open =>
      LET ch    == wargs.channels
          width == wargs.bitsPerSample \div 8
          at(i, j) == HeaderSize + ((i - 1) * ch + (j - 1)) * width
      IN  /\ 0 <= wr.ctr /\ wr.ctr <= wargs.numSamples
          /\ wr.ctr = Len(writeLog)
          /\ Len(sink) = HeaderSize + wr.ctr * ch * width
          /\ SubSeq(sink, 1, HeaderSize) = EncodeHeader(wr.H)
          /\ SubSeq(sink, 1, 4) = RIFF
          /\ \A i \in 1..Len(writeLog) :
                /\ Len(writeLog[i].frame) = ch
                /\ \A j \in 1..ch : \A k \in 0..(width - 1) :
                      sink[at(i, j) + k + 1] = ByteOf(Written(writeLog[i], j), k)

\* Two two-channel frames written, an integer one with different samples
\* in its channels and a float one, and a further call rejected.
C15_Witness ==
    /\ wr.open /\ wr.ctr = 2 /\ wargs.channels = 2
    /\ writeLog[1].kind = "int" /\ writeLog[2].kind = "float"
    /\ writeLog[1].frame[1] # writeLog[1].frame[2]
    /\ result.err = "FrameBudgetExceeded"
    /\ Len(sink) = HeaderSize + 16

---------------------------------------------------------------------------
\* Properties of SpecF.

\* C12: a WriteInt or WriteFloat that succeeds increments ctr by exactly 1;
\* one whose frame passes the preconditions and is refused by the sink
\* fails with WriteFailed; no failed write changes ctr or the remaining
\* budget numSamples - ctr.
C12_CounterOnWrite ==
    [][(wr.open /\ IsWrite(result'.op)) =>
         LET refusal == FirstRefusal(result'.arg,
                           IF result'.op = "WriteInt" THEN {8, 16, 32} ELSE {32})
             bytes   == result'.arg * (wr.H.BitsPerSample \div 8)
         IN  /\ result'.err = "nil" => wr'.ctr = wr.ctr + 1
             /\ (refusal = "none" /\ Len(sink) + bytes > sinkCap)
                   => result'.err = "WriteFailed"
             /\ result'.err # "nil" =>
                   /\ wr'.ctr = wr.ctr
                   /\ wr'.numSamples - wr'.ctr = wr.numSamples - wr.ctr]_vars

\* A second frame refused by the sink after part of its bytes were taken:
\* one frame stays counted.
C12_Witness ==
    /\ IsWrite(result.op) /\ result.err = "WriteFailed"
    /\ wr.ctr = 1 /\ wr.numSamples = 2
    /\ Len(sink) = sinkCap
    /\ Len(sink) > HeaderSize + wr.H.Channels * (wr.H.BitsPerSample \div 8)

---------------------------------------------------------------------------
\* Properties of SpecR.

\* The bytes of one frame.
FrameSize(h) == h.Channels * (h.BitsPerSample \div 8)

\* The derived fields of a header agree with its channels, rate, bit depth
\* and a whole number of frames.
ConsistentHeader(h) ==
    /\ h.Channels > 0
    /\ h.BlockAlign = h.Channels * (h.BitsPerSample \div 8)
    /\ h.BytesPerSec = h.SamplesPerSec * h.Channels * (h.BitsPerSample \div 8)
    /\ h.DataSize = 36 + h.DataChunkSize
    /\ h.DataChunkSize % FrameSize(h) = 0

\* C2: for a stream made of a valid header with consistent derived fields
\* (bitsPerSample 8, 16 or 32) and exactly GetSampleCount() whole frames,
\* reading every frame with ReadInt and writing them back with WriteInt to
\* a Writer opened with the header's parameters yields the input bytes.
C2_DecodeEncode ==
    (/\ rd.open /\ wr.open
     /\ ConsistentHeader(rd.H)
     /\ rd.H.BitsPerSample \in {8, 16, 32}
     /\ Len(stream) = HeaderSize + GetSampleCount(rd.H).val * FrameSize(rd.H))
    => /\ result.err = "nil"
       /\ wr.ctr = Len(readLog) => (Len(sink) = Len(stream) /\ sink = stream)

\* Three one-channel 16-bit frames read and written back.
C2_Witness ==
    /\ rd.open /\ wr.open
    /\ ConsistentHeader(rd.H)
    /\ rd.H.BitsPerSample = 16 /\ rd.H.Channels = 1
    /\ Len(readLog) = 3 /\ wr.ctr = 3
    /\ readLog[1].frame = <<-1>> /\ readLog[2].frame = <<255>>
    /\ sink = stream

\* C5 as stated: GetSampleCount returns
\* dataChunkSize / (channels * bitsPerSample/8), the divisor computed
\* without 16-bit wraparound, and never fails.
C5_SampleCount ==
    result.op = "GetSampleCount" =>
        /\ result.err = "nil"
        /\ result.val = <<rd.H.DataChunkSize
                            \div (rd.H.Channels * (rd.H.BitsPerSample \div 8))>>

\* The checks of Validate in the order of the claim.
Checks(h) ==
    << <<"RiffID", h.RiffID = RIFF>>,
       <<"RiffType", h.RiffType = WAVE>>,
       <<"FmtChunkID", h.FmtChunkID = FMT>>,
       <<"DataChunkID", h.DataChunkID = DATA>>,
       <<"FmtChunkSize", h.FmtChunkSize = 16>>,
       <<"DataSize", h.DataSize = 36 + h.DataChunkSize>>,
       <<"AudioFmt", h.AudioFmt = 1>>,
       <<"BitsPerSample", h.BitsPerSample \in {8, 16, 24, 32}>> >>

Failing(h) == {i \in 1..8 : ~Checks(h)[i][2]}

FirstFailing(h) ==
    Checks(h)[CHOOSE i \in Failing(h) : \A k \in Failing(h) : i <= k][1]

\* C6: NewReader on a stream of 44 bytes or more succeeds exactly when the
\* eight checks hold, and otherwise reports one InvalidHeaderField error
\* naming the first check, in the claim's order, that fails.
C6_ValidateOrder ==
    (result.op = "NewReader" /\ Len(stream) >= HeaderSize) =>
        LET h == DecodeHeader(SubSeq(stream, 1, HeaderSize)) IN
        /\ (result.err = "nil") <=> (Failing(h) = {})
        /\ rd.open <=> (Failing(h) = {})
        /\ Failing(h) # {} =>
              (result.err = "InvalidHeaderField" /\ result.what = FirstFailing(h))

\* A header that fails four checks is reported for the first of them.
C6_Witness ==
    /\ result.op = "NewReader" /\ Len(stream) >= HeaderSize
    /\ Failing(DecodeHeader(SubSeq(stream, 1, HeaderSize))) = {5, 6, 7, 8}
    /\ result.what = "FmtChunkSize"

IsRead(op) == op \in {"ReadInt", "ReadFloat"}

\* C7: ReadFloat on a header whose bitsPerSample is not 32 fails with
\* UnsupportedEncoding and leaves the stream position where it was, so the
\* next ReadInt returns what it would have returned before.
C7_ReadFloatNoConsume ==
    [][(rd.open /\ rd.H.BitsPerSample # 32 /\ result'.op = "ReadFloat")
         => /\ result'.err = "UnsupportedEncoding"
            /\ pos' = pos /\ stream' = stream /\ readLog' = readLog
            /\ ReadIntResult(stream', pos', rd'.H) = ReadIntResult(stream, pos, rd.H)]_vars

\* ReadFloat refused in the middle of the frames of a 16-bit stream.
C7_Witness ==
    /\ result.op = "ReadFloat" /\ result.err = "UnsupportedEncoding"
    /\ rd.H.BitsPerSample = 16
    /\ Len(readLog) = 1
    /\ pos + FrameSize(rd.H) <= Len(stream)

\* The 24-bit two's-complement value of three little-endian bytes.
TwosComplement24(b) ==
    LET u == b[1] + 256 * b[2] + 65536 * b[3]
    IN  IF u >= 2 ^ 23 THEN u - 2 ^ 24 ELSE u

\* The three bytes of channel j of the frame a ReadInt has just returned.
LastSampleBytes24(j) ==
    SubSeq(stream, pos - 3 * (Len(result.val) - j + 1) + 1,
                   pos - 3 * (Len(result.val) - j))

\* C8: every sample a 24-bit ReadInt returns is the two's-complement value
\* of its three little-endian bytes, within -8388608..8388607; 00 00 FF
\* reads as -65536 and FF FF 00 as 65535.
C8_Decode24 ==
    (result.op = "ReadInt" /\ result.err = "nil" /\ rd.H.BitsPerSample = 24) =>
        \A j \in 1..Len(result.val) :
            LET b == LastSampleBytes24(j) IN
            /\ result.val[j] = TwosComplement24(b)
            /\ result.val[j] >= -8388608 /\ result.val[j] <= 8388607
            /\ b = <<0, 0, 255>> => result.val[j] = -65536
            /\ b = <<255, 255, 0>> => result.val[j] = 65535

\* A two-channel 24-bit frame made of the two byte triples of the claim.
C8_Witness ==
    /\ result.op = "ReadInt" /\ result.err = "nil" /\ rd.H.BitsPerSample = 24
    /\ result.val = <<-65536, 65535>>

\* C9: a read that finds less than a whole frame left fails with
\* TruncatedStream, returns no frame and adds none to the frames returned;
\* a read that finds a whole frame returns all its channels.
C9_NoPartialFrame ==
    [][(rd.open /\ IsRead(result'.op)
          /\ (result'.op = "ReadFloat" => rd.H.BitsPerSample = 32))
         => IF Len(stream) - pos < FrameSize(rd.H)
            THEN /\ result'.err = "TruncatedStream"
                 /\ result'.val = <<>>
                 /\ readLog' = readLog
            ELSE /\ result'.err = "nil"
                 /\ Len(result'.val) = rd.H.Channels
                 /\ Len(readLog') = Len(readLog) + 1
                 /\ readLog'[Len(readLog')].frame = result'.val
                 /\ pos' = pos + FrameSize(rd.H)]_vars

\* A two-channel 16-bit read that decodes the first channel and then runs
\* out of bytes.
C9_Witness ==
    /\ result.op = "ReadInt" /\ result.err = "TruncatedStream"
    /\ rd.H.Channels = 2 /\ rd.H.BitsPerSample = 16
    /\ readLog = <<>>
    /\ Len(stream) = HeaderSize + 3

\* C10 as stated: once GetSampleCount() frames have been returned, every
\* further read fails with TruncatedStream and returns no frame.
C10_ReadBeyondCount ==
    [][(rd.open /\ ~GetSampleCount(rd.H).panic
          /\ Len(readLog) >= GetSampleCount(rd.H).val /\ IsRead(result'.op))
         => (result'.err = "TruncatedStream" /\ readLog' = readLog)]_vars

\* C10 amended: on a stream that holds no whole frame after the
\* GetSampleCount() declared ones, once those frames have been returned
\* every further ReadInt fails with TruncatedStream, every further
\* ReadFloat fails with TruncatedStream at 32 bits and UnsupportedEncoding
\* otherwise, and no further frame is returned.
C10_ReadBeyondData ==
    [][(rd.open /\ ~GetSampleCount(rd.H).panic
          /\ Len(stream) - HeaderSize < (GetSampleCount(rd.H).val + 1) * FrameSize(rd.H)
          /\ Len(readLog) >= GetSampleCount(rd.H).val /\ IsRead(result'.op))
         => /\ result'.err = IF result'.op = "ReadFloat" /\ rd.H.BitsPerSample # 32
                              THEN "UnsupportedEncoding" ELSE "TruncatedStream"
            /\ readLog' = readLog]_vars

\* A read refused after the two declared frames of a two-channel stream.
C10_Witness ==
    /\ rd.open /\ ~GetSampleCount(rd.H).panic
    /\ rd.H.Channels = 2
    /\ GetSampleCount(rd.H).val = 2 /\ Len(readLog) = 2
    /\ result.op = "ReadInt" /\ result.err = "TruncatedStream"

\* The offset in the header of the field each check of Validate names.
FieldOffset(what) ==
    CASE what = "RiffID"        -> 0
      [] what = "DataSize"      -> 4
      [] what = "RiffType"      -> 8
      [] what = "FmtChunkID"    -> 12
      [] what = "FmtChunkSize"  -> 16
      [] what = "AudioFmt"      -> 20
      [] what = "BitsPerSample" -> 34
      [] what = "DataChunkID"   -> 36

\* C13 as stated: after NewReader has read a 44-byte header that fails
\* validation there is no Reader and the stream is at the offset of the
\* field whose check failed.
C13_LeftAtFailingField ==
    (result.op = "NewReader" /\ result.err = "InvalidHeaderField")
        => (~rd.open /\ pos = FieldOffset(result.what))

\* C13 amended: after NewReader has read a 44-byte header that fails
\* validation there is no Reader and the stream is just after the 44 bytes
\* of the header, whichever field failed: the bytes are not given back.
C13_LeftAfterHeader ==
    (result.op = "NewReader" /\ result.err = "InvalidHeaderField")
        => (~rd.open /\ pos = HeaderSize)

\* A header refused for its bit depth on a stream that has data after it.
C13_Witness ==
    /\ result.op = "NewReader" /\ result.err = "InvalidHeaderField"
    /\ result.what = "BitsPerSample"
    /\ Len(stream) > HeaderSize
    /\ pos = HeaderSize

\* C14: a Reader that NewReader constructed has, before and after every
\* ReadInt and ReadFloat call, a header whose BitsPerSample is one of 8,
\* 16, 24, 32, and no ReadInt call on it reaches the panic for an
\* unrecognized bitsPerSample.
C14_NoPanic ==
    /\ rd.open => rd.H.BitsPerSample \in {8, 16, 24, 32}
    /\ result.op = "ReadInt" => result.err # "panic"

\* A successful ReadInt call on a two-channel 24-bit Reader that has
\* returned a frame.
C14_Witness ==
    /\ rd.open /\ rd.H.BitsPerSample = 24 /\ rd.H.Channels = 2
    /\ result.op = "ReadInt" /\ result.err = "nil"
    /\ Len(result.val) = 2
    /\ Len(readLog) >= 1

====
